---- MODULE Spec2Model ----
(***************************************************************************)
(* A model of the geometry core of the Beetle simulator: the Vec2 algebra  *)
(* (src/src/vector.py), the shape classes, the Ray collision engine, the   *)
(* random room generator and the ShapeContainer registry                   *)
(* (src/src/shapes.py).                                                    *)
(*                                                                         *)
(* Numbers.  The program computes in floating point; the model computes    *)
(* exactly on the integer grid.                                            *)
(*   - a Vec2 has integer components;                                      *)
(*   - an angle is a whole number q of quarter turns (q * pi/2), so that   *)
(*     cos and sin are -1, 0 or 1;                                         *)
(*   - a unit vector u / |u| (the result of normalized()) is kept as the   *)
(*     primitive integer vector u it points along, and a length |d| as its *)
(*     square d.d; a quantity computed from a unit vector is therefore     *)
(*     known up to the positive factor |u|, which leaves every sign and    *)
(*     every ratio of two such quantities exact;                           *)
(*   - a hit distance t is an exact fraction n / d in lowest terms;        *)
(*   - EPSILON (1e-9) is far below the distance between two values the     *)
(*     bounded grid can produce, so a comparison against it is decided by  *)
(*     the operators LtEpsilon, LtMinusEpsilon and GtPlusEpsilon below.    *)
(***************************************************************************)
EXTENDS Integers, Sequences, FiniteSets, TLC

VARIABLES
    shape_id,     \* Shape.shape_id, the class-level counter
    heap,         \* the shape objects constructed so far; an object's address is its index
    containers,   \* the ShapeContainer objects ever allocated; each is its `shapes` dict
    instance,     \* ShapeContainer._instance: 0 for None, else an index of containers
    probe,        \* the Ray the caller holds, None before it makes one
    last,         \* the last call made, its arguments and what it returned or raised
    run           \* history: the add calls made since the last clear()

vars == <<shape_id, heap, containers, instance, probe, last, run>>

----------------------------------------------------------------------------
(* Bounds of the model *)

\* the largest number of shape objects a behaviour of Spec constructs
MaxHeap == 4
\* the largest n_edges asked of the random room generator
MaxEdges == 5
\* the largest ray length of a query
MaxRayLength == 4

----------------------------------------------------------------------------
(* Arithmetic helpers *)

Abs(a) == IF a < 0 THEN -a ELSE a

RECURSIVE Gcd(_, _)
Gcd(a, b) == IF b = 0 THEN a ELSE Gcd(b, a % b)

\* the fraction n / d (d # 0) in lowest terms with a positive denominator
Frac(n, d) ==
    LET s == IF d < 0 THEN -1 ELSE 1
        g == Gcd(Abs(n), Abs(d))
    IN  [n |-> (s * n) \div g, d |-> (s * d) \div g]

FracLt(a, b) == a.n * b.d < b.n * a.d
FracLe(a, b) == a.n * b.d <= b.n * a.d

\* x < EPSILON, x a fraction: no positive value of the grid is below EPSILON
LtEpsilon(x) == x.n <= 0
\* x < 0 - EPSILON: no negative value of the grid is above -EPSILON
LtMinusEpsilon(x) == x.n < 0
\* x > sqrt(sq) + EPSILON: no value of the grid exceeds sqrt(sq) by less
GtRootPlusEpsilon(x, sq) == x.n > 0 /\ x.n * x.n > sq * x.d * x.d

----------------------------------------------------------------------------
(* Vec2 *)

Vec2(x, y) == [x |-> x, y |-> y]

VAdd(a, b) == Vec2(a.x + b.x, a.y + b.y)
VSub(a, b) == Vec2(a.x - b.x, a.y - b.y)
VMul(a, k) == Vec2(a.x * k, a.y * k)
Dot(a, b) == a.x * b.x + a.y * b.y

\* the square of Vec2.length()
Length2(v) == Dot(v, v)

\* normalized(): the zero vector when length < EPSILON, else the unit vector
\* along v, kept as the primitive integer vector of v's direction
Normalized(v) ==
    IF Length2(v) = 0 THEN Vec2(0, 0)
    ELSE LET g == Gcd(Abs(v.x), Abs(v.y)) IN Vec2(v.x \div g, v.y \div g)

\* np.cos and np.sin of q quarter turns
Cos(q) == CASE q % 4 = 0 -> 1 [] q % 4 = 2 -> -1 [] OTHER -> 0
Sin(q) == CASE q % 4 = 1 -> 1 [] q % 4 = 3 -> -1 [] OTHER -> 0

\* Vec2.rotate: _matmul with first = (cos, sin), second = (-sin, cos)
Rotate(v, q) ==
    LET first == Vec2(Cos(q), Sin(q))
        second == Vec2(-Sin(q), Cos(q))
    IN  Vec2(Dot(v, first), Dot(v, second))

----------------------------------------------------------------------------
(* Dicts: ShapeContainer.shapes maps a key to a shape's address.  Every key *)
(* is inserted as the current value of the counter, which never decreases,  *)
(* so insertion order is key order and a function holds the whole dict.     *)

EmptyDict == << >>
Put(m, k, a) == [j \in DOMAIN m \cup {k} |-> IF j = k THEN a ELSE m[j]]
Pop(m, k) == [j \in DOMAIN m \ {k} |-> m[j]]
Values(m) == {m[k] : k \in DOMAIN m}

----------------------------------------------------------------------------
(* The mutable state a constructor works on, threaded through its steps:    *)
(* sid is Shape.shape_id, regs the containers, exc the exception raised.    *)

Now == [sid |-> shape_id, heap |-> heap, regs |-> containers, exc |-> "none"]

Raise(st, e) == [st EXCEPT !.exc = e]

\* the address the next allocated object gets
NextAddr(st) == Len(st.heap) + 1

Alloc(st, obj) == [st EXCEPT !.heap = Append(@, obj)]

\* ShapeContainer.add: the key tested and written is the counter Shape.shape_id
ShapeContainer_add(st, c, a) ==
    IF st.sid \in DOMAIN st.regs[c]
    THEN Raise(st, "ValueError")
    ELSE [st EXCEPT !.regs[c] = Put(@, st.sid, a)]

\* Shape.__init__ on the object at address a
Shape_init(st, a) ==
    LET s1 == [st EXCEPT !.sid = @ + 1]
    IN  IF instance # 0 THEN ShapeContainer_add(s1, instance, a) ELSE s1

----------------------------------------------------------------------------
(* Shape objects.  Every object carries kind (its class), can_collide (the  *)
(* attribute as Python resolves it on the object) and id: the value         *)
(* Shape.__init__ gave the counter when it ran on the object, 0 when it     *)
(* never ran on it.                                                         *)

\* Point(x=x, y=y)
Point(st, x, y) ==
    LET a == NextAddr(st)
        obj == [kind |-> "Point", can_collide |-> FALSE, id |-> st.sid + 1,
                x |-> x, y |-> y]
    IN  Shape_init(Alloc(st, obj), a)

\* HemiPlane(p0, direction) and its __post_init__
HemiPlane(st, p0, direction) ==
    LET a == NextAddr(st)
        obj == [kind |-> "HemiPlane", can_collide |-> TRUE, id |-> st.sid + 1,
                p0 |-> p0, direction |-> direction,
                normal |-> Rotate(direction, 1)]
    IN  Shape_init(Alloc(st, obj), a)

\* HemiPlane.from_two_points
HemiPlane_from_two_points(st, pt_1, pt_2) ==
    HemiPlane(st, pt_1, Normalized(VSub(pt_2, pt_1)))

\* Segment(p0, direction, length, can_collide): HemiPlane.__post_init__ runs on it;
\* length2 is the square of the length field
Segment(st, p0, direction, length2, can_collide) ==
    LET a == NextAddr(st)
        obj == [kind |-> "Segment", can_collide |-> can_collide, id |-> st.sid + 1,
                p0 |-> p0, direction |-> direction,
                normal |-> Rotate(direction, 1),
                length2 |-> length2, add_to_shape_container |-> TRUE]
    IN  Shape_init(Alloc(st, obj), a)

\* Segment.from_two_points
Segment_from_two_points(st, pt_1, pt_2) ==
    Segment(st, pt_1, Normalized(VSub(pt_2, pt_1)), Length2(VSub(pt_2, pt_1)), TRUE)

\* Polygon.edges_from_vertices, from vertex i on: the state after the edges'
\* construction and their addresses
RECURSIVE EdgesFrom(_, _, _, _)
EdgesFrom(st, vertices, i, acc) ==
    IF i > Len(vertices) \/ st.exc # "none"
    THEN [st |-> st, edges |-> acc]
    ELSE LET iplus1 == IF i < Len(vertices) THEN i + 1 ELSE 1
             s1 == Segment_from_two_points(st, vertices[i], vertices[iplus1])
         IN  EdgesFrom(s1, vertices, i + 1, Append(acc, NextAddr(st)))

RECURSIVE VSum(_)
VSum(vs) == IF vs = << >> THEN Vec2(0, 0) ELSE VAdd(vs[1], VSum(Tail(vs)))

\* Polygon.center_from_vertices: the sum of the vertices over their number,
\* kept as that fraction
CenterFromVertices(vertices) == [num |-> VSum(vertices), den |-> Len(vertices)]

\* a __post_init__ that refuses every polygon of fewer than 4 vertices
Polygon_post_init_four(st, a) ==
    LET vertices == st.heap[a].vertices
    IN  IF Len(vertices) < 4
        THEN Raise(st, "ValueError")
        ELSE LET r == EdgesFrom(st, vertices, 1, << >>)
             IN  IF r.st.exc # "none" THEN r.st
                 ELSE [r.st EXCEPT !.heap[a].edges = r.edges,
                                   !.heap[a].center = CenterFromVertices(vertices)]

\* Polygon.__post_init__ on the object at address a, whose vertices are set
Polygon_post_init(st, a) ==
    LET vertices == st.heap[a].vertices
    IN  IF Len(vertices) = 0
        THEN Raise(st, "ValueError")
        ELSE LET r == EdgesFrom(st, vertices, 1, << >>)
             IN  IF r.st.exc # "none" THEN r.st
                 ELSE [r.st EXCEPT !.heap[a].edges = r.edges,
                                   !.heap[a].center = CenterFromVertices(vertices)]

\* Polygon(vertices=vertices): Shape.__init__ is not called on the polygon, and
\* can_collide resolves to Shape.can_collide
Polygon(st, vertices) ==
    LET a == NextAddr(st)
        obj == [kind |-> "Polygon", can_collide |-> FALSE, id |-> 0,
                vertices |-> vertices, edges |-> << >>,
                center |-> [num |-> Vec2(0, 0), den |-> 1]]
    IN  Polygon_post_init(Alloc(st, obj), a)

\* Rectangle(x=x, y=y, w=w, h=h, vertices=vertices)
Rectangle(st, vertices, x, y, w, h) ==
    LET a == NextAddr(st)
        vs == IF Len(vertices) = 0
              THEN << Vec2(x, y), Vec2(x + w, y), Vec2(x + w, y + h), Vec2(x, y + h) >>
              ELSE vertices
        obj == [kind |-> "Rectangle", can_collide |-> FALSE, id |-> st.sid + 1,
                vertices |-> vs, edges |-> << >>,
                center |-> [num |-> Vec2(0, 0), den |-> 1],
                x |-> x, y |-> y, w |-> w, h |-> h]
        s1 == Shape_init(Alloc(st, obj), a)
    IN  IF s1.exc # "none" THEN s1 ELSE Polygon_post_init(s1, a)

----------------------------------------------------------------------------
(* The random room generator *)

\* np.random.uniform(-max_size / 2, max_size / 2): the grid values of [low, high)
Uniform(max_size) == {k \in -max_size..max_size : -max_size <= 2 * k /\ 2 * k < max_size}

\* a quadrant test that takes the sign of y for positive in the lower quadrants
Quadrants_upper(pts) ==
    {"ne" : i \in {j \in DOMAIN pts : pts[j].x > 0 /\ pts[j].y > 0}} \cup
    {"nw" : i \in {j \in DOMAIN pts : pts[j].x < 0 /\ pts[j].y > 0}} \cup
    {"sw" : i \in {j \in DOMAIN pts : pts[j].x < 0 /\ pts[j].y > 0}} \cup
    {"se" : i \in {j \in DOMAIN pts : pts[j].x > 0 /\ pts[j].y > 0}}

\* the quadrant names ordered_random_vertices collects for the points pts
Quadrants(pts) ==
    {"ne" : i \in {j \in DOMAIN pts : pts[j].x > 0 /\ pts[j].y > 0}} \cup
    {"nw" : i \in {j \in DOMAIN pts : pts[j].x < 0 /\ pts[j].y > 0}} \cup
    {"sw" : i \in {j \in DOMAIN pts : pts[j].x < 0 /\ pts[j].y < 0}} \cup
    {"se" : i \in {j \in DOMAIN pts : pts[j].x > 0 /\ pts[j].y < 0}}

\* the max_size arguments of the model
Sizes == {3}

\* the rounds on which the sampling loop of ordered_random_vertices can end:
\* n_points points drawn in the square of side max_size, with the four
\* quadrants covered
Samples ==
    UNION {{[n_points |-> n, max_size |-> m, pts |-> pts] :
                pts \in {p \in [1..n -> {Vec2(x, y) : x \in Uniform(m), y \in Uniform(m)}] :
                            Cardinality(Quadrants(p)) = 4}} :
           n \in 4..MaxEdges, m \in Sizes}

\* clockwise_sort(a) < clockwise_sort(b).  The key is
\* arctan(y / (x + EPSILON)) + pi/2, plus pi when x < 0: the keys of points
\* with x >= 0 lie in (0, pi), those with x < 0 in (pi, 2 pi); within a side
\* x + EPSILON has one sign, arctan is increasing, and the two quotients
\* compare as  a.y * (b.x + EPSILON)  and  b.y * (a.x + EPSILON).
KeyLess(a, b) ==
    LET side(v) == IF v.x < 0 THEN 1 ELSE 0
        cross == a.y * b.x - b.y * a.x
    IN  IF side(a) # side(b) THEN side(a) < side(b)
        ELSE cross < 0 \/ (cross = 0 /\ a.y < b.y)

\* pt put into the sorted list s behind every element whose key is not larger
RECURSIVE Insert(_, _)
Insert(s, pt) ==
    IF s = << >> THEN << pt >>
    ELSE IF KeyLess(pt, s[1]) THEN << pt >> \o s
    ELSE << s[1] >> \o Insert(Tail(s), pt)

\* sorted(pts, key=clockwise_sort), a stable sort
RECURSIVE Sorted(_)
Sorted(pts) ==
    IF pts = << >> THEN << >>
    ELSE Insert(Sorted(SubSeq(pts, 1, Len(pts) - 1)), pts[Len(pts)])

\* ordered_random_vertices past its n_points test, with pts the points its
\* loop ended on (called with visualize=False)
ordered_random_vertices(pts, center) ==
    LET sorted == Sorted(pts)
    IN  [i \in 1..Len(sorted) |-> VAdd(sorted[i], center)]

\* RandomPolygon(n_edges=n_edges, max_size=max_size, center=center)
RandomPolygon(st, n_edges, max_size, center, pts) ==
    IF n_edges < 4
    THEN Raise(st, "ValueError")
    ELSE LET a == NextAddr(st)
             obj == [kind |-> "RandomPolygon", can_collide |-> FALSE, id |-> 0,
                     vertices |-> ordered_random_vertices(pts, center),
                     edges |-> << >>,
                     center |-> [num |-> center, den |-> 1],
                     n_edges |-> n_edges, max_size |-> max_size]
         IN  Polygon_post_init(Alloc(st, obj), a)

----------------------------------------------------------------------------
(* Rays *)

\* Ray(angle, origin, length), angle in quarter turns
Ray(angle, origin, length) ==
    [angle |-> angle, origin |-> origin, length |-> length,
     direction |-> Vec2(Cos(angle), Sin(angle))]

\* Ray.to_line: Segment(origin, direction, length, can_collide=False)
Ray_to_line(st, ray) ==
    Segment(st, ray.origin, ray.direction, ray.length * ray.length, FALSE)

\* Ray.at(coordinate), coordinate a fraction: the point's components as
\* fractions
Ray_at(ray, t) ==
    [x |-> Frac(ray.origin.x * t.d + ray.direction.x * t.n, t.d),
     y |-> Frac(ray.origin.y * t.d + ray.direction.y * t.n, t.d)]

None == [some |-> FALSE]
Some(v) == [some |-> TRUE, v |-> v]

\* collides_line without the test of t against the ray's length
collides_line_unbounded(ray, hemiplane) ==
    LET determinant == Dot(ray.direction, hemiplane.normal)
        t == Frac(Dot(VSub(hemiplane.p0, ray.origin), hemiplane.normal), determinant)
    IN  IF LtEpsilon(Frac(Abs(determinant), 1)) THEN None
        ELSE IF LtEpsilon(t) THEN None
        ELSE Some(t)

\* Ray.collides_line.  determinant and the dividend both carry the factor
\* 1 / |normal|, which their quotient t is free of.
collides_line(ray, hemiplane) ==
    LET determinant == Dot(ray.direction, hemiplane.normal)
        t == Frac(Dot(VSub(hemiplane.p0, ray.origin), hemiplane.normal), determinant)
    IN  IF LtEpsilon(Frac(Abs(determinant), 1)) THEN None
        ELSE IF LtEpsilon(t) \/ FracLt(Frac(ray.length, 1), t) THEN None
        ELSE Some(t)

\* Ray.collides_segment.  proj is (hit_point - p0) . direction times
\* |direction's primitive vector|, and is compared with the length times
\* that factor.
collides_segment(ray, segment) ==
    LET r == collides_line(ray, segment)
    IN  IF ~r.some THEN None
        ELSE LET t == r.v
                 u == segment.direction
                 proj == Frac(Dot(VSub(ray.origin, segment.p0), u) * t.d
                                + Dot(ray.direction, u) * t.n, t.d)
             IN  IF LtMinusEpsilon(proj)
                    \/ GtRootPlusEpsilon(proj, segment.length2 * Length2(u))
                 THEN None
                 ELSE r

\* the loop of Ray.collides_polygon over the edges from the i-th on
RECURSIVE MinOverEdges(_, _, _, _, _)
MinOverEdges(ray, objs, edges, i, min_t) ==
    IF i > Len(edges) THEN min_t
    ELSE LET t == collides_segment(ray, objs[edges[i]])
         IN  MinOverEdges(ray, objs, edges, i + 1,
                 IF t.some /\ (~min_t.some \/ FracLt(t.v, min_t.v)) THEN t ELSE min_t)

\* Ray.collides_polygon, the polygon an object of the heap objs
collides_polygon(ray, objs, polygon) == MinOverEdges(ray, objs, polygon.edges, 1, None)

\* Ray.collide: what it returns and what it raises
collide(ray, objs, shape) ==
    IF ~shape.can_collide THEN [t |-> None, exc |-> "none"]
    ELSE CASE shape.kind = "HemiPlane" -> [t |-> collides_line(ray, shape), exc |-> "none"]
           [] shape.kind = "Polygon" -> [t |-> collides_polygon(ray, objs, shape), exc |-> "none"]
           [] shape.kind = "Segment" -> [t |-> collides_segment(ray, shape), exc |-> "none"]
           [] OTHER -> [t |-> None, exc |-> "NotImplementedError"]

----------------------------------------------------------------------------
(* The ultrasonic sensor *)

\* the keys of a dict in the order iteration meets them: a container is
\* given its keys in increasing order, add writing the counter's value
RECURSIVE Ordered(_)
Ordered(keys) ==
    IF keys = {} THEN << >>
    ELSE LET k == CHOOSE k \in keys : \A j \in keys : k <= j
         IN  << k >> \o Ordered(keys \ {k})

\* an inner loop of scan that keeps the first hit it meets
Nearest_first(collisions, i, cur_collision) ==
    LET hits == {j \in i..Len(collisions) :
                    collisions[j].t.some /\ collisions[j].t.v.n # 0}
    IN  [cur |-> IF hits = {} THEN cur_collision
                 ELSE collisions[CHOOSE j \in hits : \A h \in hits : j <= h].t.v,
         exc |-> "none"]

\* cur_collision after `if collision and collision < cur_collision`
Closer(collision, cur_collision) ==
    IF collision.some /\ collision.v.n # 0 /\ FracLt(collision.v, cur_collision)
    THEN collision.v ELSE cur_collision

\* the inner loop of UltrasonicSensor.scan from the i-th shape on, with
\* collisions[i] what ray.collide gives on the i-th shape: the distance kept
\* and the exception raised
RECURSIVE Nearest(_, _, _)
Nearest(collisions, i, cur_collision) ==
    IF i > Len(collisions) THEN [cur |-> cur_collision, exc |-> "none"]
    ELSE IF collisions[i].exc # "none"
    THEN [cur |-> cur_collision, exc |-> collisions[i].exc]
    ELSE Nearest(collisions, i + 1, Closer(collisions[i].t, cur_collision))

\* what scan draws with visualize set: the hit point, when there is a hit
\* below max_depth, and the ray's line
Visualize(st, ray, cur_collision) ==
    LET hit_point == Ray_at(ray, cur_collision)
        s1 == IF FracLt(cur_collision, Frac(ray.length, 1))
              THEN Point(st, hit_point.x, hit_point.y) ELSE st
    IN  IF s1.exc = "none" THEN Ray_to_line(s1, ray) ELSE s1

\* one probe of scan, its inner loop done: the state left and the list of
\* distances
Probed(st, ray, near, visualize, distances) ==
    IF near.exc # "none"
    THEN [st |-> Raise(st, near.exc), distances |-> distances]
    ELSE LET s1 == IF visualize THEN Visualize(st, ray, near.cur) ELSE st
         IN  [st |-> s1,
              distances |-> IF s1.exc = "none"
                            THEN Append(distances, [angle |-> ray.angle, d |-> near.cur])
                            ELSE distances]

\* the shape objects of the registry in the order its iteration gives them
Registered(st) ==
    LET keys == Ordered(DOMAIN st.regs[instance])
    IN  [i \in 1..Len(keys) |-> st.heap[st.regs[instance][keys[i]]]]

\* the probe angle np.pi * k / point_density + offset_angle in quarter turns,
\* for the densities 1 and 2
ProbeAngle(k, point_density, offset_angle) == (2 * k) \div point_density + offset_angle

\* the outer loop of UltrasonicSensor.scan from probe k on
RECURSIVE ScanFrom(_, _, _, _, _, _, _)
ScanFrom(st, sensor, origin, offset_angle, visualize, k, distances) ==
    IF k > sensor.point_density \/ st.exc # "none"
    THEN [st |-> st, distances |-> distances]
    ELSE IF sensor.point_density = 0
    THEN [st |-> Raise(st, "ZeroDivisionError"), distances |-> distances]
    ELSE LET ray == Ray(ProbeAngle(k, sensor.point_density, offset_angle),
                        origin, sensor.max_depth)
             shapes == Registered(st)
             collisions == [i \in DOMAIN shapes |-> collide(ray, st.heap, shapes[i])]
             r == Probed(st, ray, Nearest(collisions, 1, Frac(sensor.max_depth, 1)),
                         visualize, distances)
         IN  ScanFrom(r.st, sensor, origin, offset_angle, visualize, k + 1,
                      r.distances)

\* UltrasonicSensor(point_density, max_depth)
UltrasonicSensor(point_density, max_depth) ==
    [point_density |-> point_density, max_depth |-> max_depth]

\* UltrasonicSensor.scan(origin, offset_angle, visualize): the state it
\* leaves and the list it returns
UltrasonicSensor_scan(st, sensor, origin, offset_angle, visualize) ==
    IF instance = 0
    THEN [st |-> Raise(st, "RuntimeError"), distances |-> << >>]
    ELSE ScanFrom(st, sensor, origin, offset_angle, visualize, 0, << >>)

----------------------------------------------------------------------------
(* Rotations *)

IsPolygon(obj) == obj.kind \in {"Polygon", "Rectangle", "RandomPolygon"}
IsHemiPlane(obj) == obj.kind \in {"HemiPlane", "Segment"}

\* vertex + (rotated - c_to_v) of Polygon.rotate, times the denominator of
\* the center
RotatedTimesDen(vertex, center, angle) ==
    LET c_to_v == VSub(VMul(vertex, center.den), center.num)
        rotated == Rotate(c_to_v, angle)
        displ == VSub(rotated, c_to_v)
    IN  VAdd(VMul(vertex, center.den), displ)

\* whether Polygon.rotate leaves the vertices on the grid
RotatesOnGrid(polygon, angle) ==
    \A i \in DOMAIN polygon.vertices :
        LET v == RotatedTimesDen(polygon.vertices[i], polygon.center, angle)
        IN  v.x % polygon.center.den = 0 /\ v.y % polygon.center.den = 0

\* a rotate that turns every vertex about the origin instead of the center
Polygon_rotate_about_origin(polygon, angle) ==
    [polygon EXCEPT !.vertices =
        [i \in DOMAIN polygon.vertices |-> Rotate(polygon.vertices[i], angle)]]

\* Polygon.rotate: the vertices are replaced; edges and center are not touched
Polygon_rotate(polygon, angle) ==
    [polygon EXCEPT !.vertices =
        [i \in DOMAIN polygon.vertices |->
            LET v == RotatedTimesDen(polygon.vertices[i], polygon.center, angle)
            IN  Vec2(v.x \div polygon.center.den, v.y \div polygon.center.den)]]

\* Rectangle.rotate
Rectangle_rotate(rectangle, angle) ==
    LET r == Polygon_rotate(rectangle, angle)
    IN  [r EXCEPT !.x = r.vertices[1].x, !.y = r.vertices[1].y]

\* HemiPlane.rotate, inherited by Segment
HemiPlane_rotate(hemiplane, angle) ==
    LET direction == Rotate(hemiplane.direction, angle)
    IN  [hemiplane EXCEPT !.direction = direction, !.normal = Rotate(direction, 1)]

----------------------------------------------------------------------------
(* ShapeContainer *)

\* __new__ without its `is None` test: every call allocates
ShapeContainer_new_always(regs, inst) ==
    [regs |-> Append(regs, EmptyDict), inst |-> Len(regs) + 1, ret |-> Len(regs) + 1]

\* ShapeContainer.__new__: the containers, the class attribute and the
\* object returned
ShapeContainer_new(regs, inst) ==
    IF inst = 0
    THEN [regs |-> Append(regs, EmptyDict), inst |-> Len(regs) + 1,
          ret |-> Len(regs) + 1]
    ELSE [regs |-> regs, inst |-> inst, ret |-> inst]

\* an __init__ that leaves the shapes of the object as they are
ShapeContainer_init_keep(regs, self) == regs

\* ShapeContainer.__init__ on the object __new__ returned
ShapeContainer_init(regs, self) == [regs EXCEPT ![self] = EmptyDict]

----------------------------------------------------------------------------
(* Operations.  `last` records the call just made: op, the exception raised *)
(* (status, "none" when it returned) and obj, the object it was about.      *)

\* the state a constructor call leaves: an object whose construction raised
\* reaches nobody and is dropped, unless a container got hold of it
Commit(st) ==
    /\ shape_id' = st.sid
    /\ containers' = st.regs
    /\ heap' = IF st.exc = "none" \/ st.regs # containers THEN st.heap ELSE heap
    /\ UNCHANGED <<instance, probe>>

NoRun == [active |-> FALSE, added |-> {}, ok |-> TRUE]

\* a constructor call of class kind leading to st; n is the number of
\* vertices or edges it was given and center the center argument
Construct(kind, st, n, center) ==
    /\ Commit(st)
    /\ last' = [op |-> "construct", status |-> st.exc,
                obj |-> IF st.exc = "none" THEN Len(heap) + 1 ELSE 0,
                kind |-> kind, n |-> n, center |-> center]
    /\ run' = NoRun

ConstructPoint(points) ==
    \E p \in points : Construct("Point", Point(Now, p.x, p.y), 0, Vec2(0, 0))

ConstructHemiPlane(lines) ==
    \E l \in lines :
        Construct("HemiPlane", HemiPlane_from_two_points(Now, l[1], l[2]), 0, Vec2(0, 0))

ConstructSegment(lines) ==
    \E l \in lines :
        Construct("Segment", Segment_from_two_points(Now, l[1], l[2]), 0, Vec2(0, 0))

\* probe = Ray(angle, origin, length)
NewRay(rays) ==
    /\ probe = None
    /\ probe' \in rays
    /\ last' = [op |-> "Ray", status |-> "none", obj |-> 0]
    /\ UNCHANGED <<shape_id, heap, containers, instance, run>>

\* probe.to_line()
RayToLine ==
    /\ probe # None
    /\ Construct("Segment", Ray_to_line(Now, probe), 0, Vec2(0, 0))

ConstructRectangle(rects) ==
    \E r \in rects :
        Construct("Rectangle", Rectangle(Now, r.vertices, r.x, r.y, r.w, r.h),
                  Len(r.vertices), Vec2(0, 0))

ConstructPolygon(polys) ==
    \E vs \in polys : Construct("Polygon", Polygon(Now, vs), Len(vs), Vec2(0, 0))

ConstructRandomPolygon(sizes, centers) ==
    \E n \in 0..MaxEdges, m \in sizes, c \in centers :
        \/ /\ n < 4
           /\ Construct("RandomPolygon", RandomPolygon(Now, n, m, c, << >>), n, c)
        \/ /\ n >= 4
           /\ \E s \in Samples :
                  /\ s.n_points = n
                  /\ s.max_size = m
                  /\ Construct("RandomPolygon", RandomPolygon(Now, n, m, c, s.pts), n, c)

\* ShapeContainer()
NewShapeContainer ==
    LET r == ShapeContainer_new(containers, instance)
    IN  /\ containers' = ShapeContainer_init(r.regs, r.ret)
        /\ instance' = r.inst
        /\ last' = [op |-> "ShapeContainer", status |-> "none", obj |-> r.ret,
                    before |-> instance,
                    len_before |-> IF instance = 0 THEN 0
                                   ELSE Cardinality(DOMAIN containers[instance])]
        /\ run' = NoRun
        /\ UNCHANGED <<shape_id, heap, probe>>

\* ShapeContainer._instance.add(shape), shape the object at address a.  run
\* follows the adds of distinct shapes made since a clear(), up to the first
\* that fails.
Add ==
    /\ instance # 0
    /\ \E a \in 1..Len(heap) :
          LET st == ShapeContainer_add(Now, instance, a)
          IN  /\ containers' = st.regs
              /\ last' = [op |-> "add", status |-> st.exc, obj |-> a]
              /\ run' = IF run.active /\ run.ok /\ a \notin run.added
                        THEN [active |-> TRUE, added |-> run.added \cup {a},
                              ok |-> st.exc = "none"]
                        ELSE NoRun
    /\ UNCHANGED <<shape_id, heap, instance, probe>>

\* ShapeContainer._instance.remove(shape_id): dict.pop raises KeyError on a
\* missing key.  The keys tried are those present and one that is not.
Remove ==
    /\ instance # 0
    /\ \E k \in DOMAIN containers[instance] \cup {shape_id + 1} :
          /\ containers' = IF k \in DOMAIN containers[instance]
                           THEN [containers EXCEPT ![instance] = Pop(@, k)]
                           ELSE containers
          /\ last' = [op |-> "remove", obj |-> k,
                      status |-> IF k \in DOMAIN containers[instance]
                                 THEN "none" ELSE "KeyError"]
    /\ run' = NoRun
    /\ UNCHANGED <<shape_id, heap, instance, probe>>

\* ShapeContainer._instance.clear()
Clear ==
    /\ instance # 0
    /\ containers' = [containers EXCEPT ![instance] = EmptyDict]
    /\ last' = [op |-> "clear", status |-> "none", obj |-> 0]
    /\ run' = [active |-> TRUE, added |-> {}, ok |-> TRUE]
    /\ UNCHANGED <<shape_id, heap, instance, probe>>

\* shape.rotate(angle) on the first object of the heap
RotateShape(angles) ==
    /\ heap # << >>
    /\ \E q \in angles :
          /\ CASE heap[1].kind = "Rectangle" ->
                    /\ RotatesOnGrid(heap[1], q)
                    /\ heap' = [heap EXCEPT ![1] = Rectangle_rotate(@, q)]
               [] heap[1].kind \in {"Polygon", "RandomPolygon"} ->
                    /\ RotatesOnGrid(heap[1], q)
                    /\ heap' = [heap EXCEPT ![1] = Polygon_rotate(@, q)]
               [] IsHemiPlane(heap[1]) ->
                    heap' = [heap EXCEPT ![1] = HemiPlane_rotate(@, q)]
               [] OTHER -> FALSE
          /\ last' = [op |-> "rotate", status |-> "none", obj |-> 1, angle |-> q]
    /\ UNCHANGED <<shape_id, containers, instance, probe, run>>

\* UltrasonicSensor(point_density, max_depth).scan(origin, offset_angle,
\* visualize): the points and lines it draws stay in the heap and the registry
Scan(sensors, origins, angles) ==
    \E sensor \in sensors, origin \in origins, offset_angle \in angles,
       visualize \in BOOLEAN :
        LET r == UltrasonicSensor_scan(Now, sensor, origin, offset_angle, visualize)
        IN  /\ shape_id' = r.st.sid
            /\ heap' = r.st.heap
            /\ containers' = r.st.regs
            /\ last' = [op |-> "scan", status |-> r.st.exc, obj |-> 0,
                        sensor |-> sensor, origin |-> origin,
                        offset_angle |-> offset_angle, visualize |-> visualize,
                        distances |-> r.distances]
            /\ run' = NoRun
            /\ UNCHANGED <<instance, probe>>

\* what `last` records of a query of the ray on the object at address a
Queried(op, a, t, exc) ==
    /\ last' = [op |-> op, status |-> exc, obj |-> a, t |-> t]
    /\ UNCHANGED <<shape_id, heap, containers, instance, probe, run>>

\* ray.collides_line(shape), shape a HemiPlane or a Segment
RayCollidesLine ==
    \E a \in DOMAIN heap :
        /\ probe # None
        /\ IsHemiPlane(heap[a])
        /\ Queried("collides_line", a, collides_line(probe, heap[a]), "none")

\* ray.collides_segment(shape)
RayCollidesSegment ==
    \E a \in DOMAIN heap :
        /\ probe # None
        /\ heap[a].kind = "Segment"
        /\ Queried("collides_segment", a, collides_segment(probe, heap[a]), "none")

\* ray.collides_polygon(shape), shape a Polygon, Rectangle or RandomPolygon
RayCollidesPolygon ==
    \E a \in DOMAIN heap :
        /\ probe # None
        /\ IsPolygon(heap[a])
        /\ Queried("collides_polygon", a, collides_polygon(probe, heap, heap[a]), "none")

\* ray.collide(shape)
RayCollide ==
    \E a \in DOMAIN heap :
        /\ probe # None
        /\ LET c == collide(probe, heap, heap[a])
           IN  Queried("collide", a, c.t, c.exc)

----------------------------------------------------------------------------
(* Spec, the registry's life: shapes that register themselves (Point,       *)
(* Segment) and one that does not (Polygon) are constructed, before and     *)
(* after the container exists, and the container is added to, removed from  *)
(* and cleared.                                                             *)

ThePoints == {Vec2(1, 2)}
TheLines == {<< Vec2(0, 0), Vec2(1, 0) >>}
ThePolygons == {<< >>, << Vec2(0, 0), Vec2(2, 0) >>}

Init ==
    /\ shape_id = 0
    /\ heap = << >>
    /\ containers = << >>
    /\ instance = 0
    /\ probe = None
    /\ last = [op |-> "start", status |-> "none", obj |-> 0]
    /\ run = NoRun

Next ==
    \/ ConstructPoint(ThePoints) /\ Len(heap') <= MaxHeap
    \/ ConstructSegment(TheLines) /\ Len(heap') <= MaxHeap
    \/ ConstructPolygon(ThePolygons) /\ Len(heap') <= MaxHeap
    \/ NewShapeContainer
    \/ Add
    \/ Remove
    \/ Clear

Spec == Init /\ [][Next]_vars

----------------------------------------------------------------------------
(* The registry claims, checked under Spec *)

\* the shapes dict of the live container
Shapes == containers[instance]

\* C2: ShapeContainer is a singleton.  At most one container object is ever
\* allocated, and a call ShapeContainer() returns the object the class
\* attribute holds, which is the one that existed before the call if any did.
C2_Singleton ==
    /\ Len(containers) <= 1
    /\ last.op = "ShapeContainer" =>
          /\ last.obj = instance
          /\ last.before # 0 => last.obj = last.before

\* a second ShapeContainer() call, made after shapes were constructed
C2_Witness ==
    /\ last.op = "ShapeContainer"
    /\ last.before # 0
    /\ Len(heap) >= 2

\* C3: add(shape) raises exactly when the shape's own identifier is already a
\* key, otherwise stores the shape under its own identifier; a failed add
\* leaves the dict as it was.
C3_AddKeyedByOwnId ==
    [][last'.op = "add" =>
          LET own == heap[last'.obj].id
          IN  /\ last'.status = "ValueError" <=> own \in DOMAIN Shapes
              /\ last'.status = "none" =>
                    own \in DOMAIN Shapes' /\ Shapes'[own] = last'.obj
              /\ last'.status # "none" => Shapes' = Shapes]_vars

\* C4: after clear(), the adds of k distinct constructed shapes all succeed
\* and leave len() = k.
C4_ReAddAfterClear ==
    run.active => run.ok /\ Cardinality(DOMAIN Shapes) = Cardinality(run.added)

\* C5: a key of the registry only ever maps to the shape that was given that
\* identifier when it was constructed.
C5_KeyNeverReused ==
    \A c \in DOMAIN containers : \A k \in DOMAIN containers[c] :
        heap[containers[c][k]].id = k

----------------------------------------------------------------------------
(* Scene, one shape and the rays cast at it: a container is made or not,    *)
(* one shape of any class is constructed, and it is rotated and queried.    *)

ScenePoints == {Vec2(1, 2)}

SceneLines ==
    {<< Vec2(0, 0), Vec2(1, 0) >>, << Vec2(0, -1), Vec2(0, 1) >>,
     << Vec2(-1, -1), Vec2(1, 1) >>, << Vec2(1, 1), Vec2(1, 1) >>}

SceneRectangles ==
    {[vertices |-> << >>, x |-> 0, y |-> 0, w |-> 4, h |-> 2],
     [vertices |-> << >>, x |-> -1, y |-> -1, w |-> 2, h |-> 2],
     [vertices |-> << Vec2(0, 0), Vec2(2, 0), Vec2(2, 2) >>,
      x |-> 0, y |-> 0, w |-> 2, h |-> 2]}

ScenePolygons ==
    {<< >>,
     << Vec2(0, 0) >>,
     << Vec2(0, 0), Vec2(2, 0) >>,
     << Vec2(0, 0), Vec2(3, 0), Vec2(0, 3) >>,
     << Vec2(-1, -1), Vec2(1, -1), Vec2(1, 1), Vec2(-1, 1) >>,
     << Vec2(0, 0), Vec2(4, 0), Vec2(4, 2), Vec2(0, 2) >>}

SceneCenters == {Vec2(0, 0), Vec2(2, 2)}

SceneAngles == {-1, 1, 2}

SceneRays ==
    {Ray(q, o, l) :
        q \in 0..3, o \in {Vec2(-3, 1), Vec2(0, 1), Vec2(1, 1), Vec2(1, -3)},
        l \in {2, MaxRayLength}}

\* the names `last` gives the ray queries
Queries == {"collides_line", "collides_segment", "collides_polygon", "collide"}

\* no constructor was called yet and no ray made
Fresh == heap = << >> /\ probe = None /\ last.op # "construct"

\* a scene: at most one container, one constructor call on the empty heap,
\* and one ray, made after the shape unless the shape is the ray's own line.
\* A query changes nothing but `last`, so the query that follows another one
\* without a rotation in between is left out: it reaches no new state.
SceneNext ==
    \/ Fresh /\ NewShapeContainer
    \/ Fresh /\ ConstructPoint(ScenePoints)
    \/ Fresh /\ ConstructHemiPlane(SceneLines)
    \/ Fresh /\ ConstructSegment(SceneLines)
    \/ Fresh /\ ConstructRectangle(SceneRectangles)
    \/ Fresh /\ ConstructPolygon(ScenePolygons)
    \/ Fresh /\ ConstructRandomPolygon(Sizes, SceneCenters)
    \/ NewRay(SceneRays)
    \/ heap = << >> /\ RayToLine
    \/ RotateShape(SceneAngles)
    \/ last.op \notin Queries /\ RayCollidesLine
    \/ last.op \notin Queries /\ RayCollidesSegment
    \/ last.op \notin Queries /\ RayCollidesPolygon
    \/ last.op \notin Queries /\ RayCollide

Scene == Init /\ [][SceneNext]_vars

----------------------------------------------------------------------------
(* Claims about construction *)

\* C1 as stated: while a ShapeContainer instance exists, every successful
\* construction of a shape, whatever its variant, advances the counter
\* Shape.shape_id and leaves the constructed object among the values of the
\* registry.
C1_ConstructionRegisters ==
    [][(last'.op = "construct" /\ last'.status = "none" /\ instance # 0)
          => /\ shape_id' > shape_id
             /\ last'.obj \in Values(Shapes')]_vars

\* the vertices of the polygon object a
VerticesOf(a) == {heap[a].vertices[i] : i \in DOMAIN heap[a].vertices}

\* the last call constructed a random room
RoomBuilt ==
    last.op = "construct" /\ last.kind = "RandomPolygon" /\ last.status = "none"

\* C9 as stated: whatever n_edges >= 4, max_size and center, the random room
\* has a vertex with x > 0, one with x < 0, one with y > 0 and one with y < 0.
C9_QuadrantsAboutOrigin ==
    RoomBuilt =>
        /\ \E v \in VerticesOf(last.obj) : v.x > 0
        /\ \E v \in VerticesOf(last.obj) : v.x < 0
        /\ \E v \in VerticesOf(last.obj) : v.y > 0
        /\ \E v \in VerticesOf(last.obj) : v.y < 0

\* C9 amended: the random room has a vertex to the right of its center, one
\* to the left, one above and one below it; for center (0, 0) these are the
\* four sign conditions of the claim.
C9_QuadrantsAboutCenter ==
    RoomBuilt =>
        /\ \E v \in VerticesOf(last.obj) : v.x > last.center.x
        /\ \E v \in VerticesOf(last.obj) : v.x < last.center.x
        /\ \E v \in VerticesOf(last.obj) : v.y > last.center.y
        /\ \E v \in VerticesOf(last.obj) : v.y < last.center.y

\* a room of the largest size was built around a center off the origin
C9_Witness ==
    /\ RoomBuilt
    /\ last.center # Vec2(0, 0)
    /\ last.n = MaxEdges
    /\ Len(heap[last.obj].vertices) = MaxEdges

----------------------------------------------------------------------------
(* Claims about ray queries *)

\* the last call was a ray query that returned a distance
Hit == last.op \in Queries /\ last.t.some

\* the query a ray makes on the object at address a by the class of the object
ForwardHit(a) ==
    IF IsHemiPlane(heap[a])
    THEN IF heap[a].kind = "Segment"
         THEN collides_segment(probe, heap[a])
         ELSE collides_line(probe, heap[a])
    ELSE IF IsPolygon(heap[a]) THEN collides_polygon(probe, heap, heap[a])
    ELSE None

\* C6 as stated: can_collide is fixed by the variant, false for Point and
\* true for Rectangle, Polygon and HemiPlane (a Segment has either value);
\* Ray.collide returns no value exactly when can_collide is false or the ray
\* has no forward hit on the shape.
C6_CanCollideByVariant ==
    /\ \A a \in DOMAIN heap :
            /\ heap[a].kind = "Point" => ~heap[a].can_collide
            /\ heap[a].kind \in {"Rectangle", "Polygon", "HemiPlane"} => heap[a].can_collide
    /\ last.op = "collide" =>
            /\ last.status = "none"
            /\ ~last.t.some <=> (~heap[last.obj].can_collide \/ ~ForwardHit(last.obj).some)

\* C7: a distance t returned by collides_line, collides_segment,
\* collides_polygon or collide is at least EPSILON, so it is positive, and at
\* most the length of the ray.
C7_HitWithinRay ==
    Hit => /\ last.t.v.n > 0 /\ last.t.v.d > 0
           /\ last.t.v.n <= probe.length * last.t.v.d

\* collides_polygon returned the full length of the ray as the distance
C7_Witness ==
    /\ Hit
    /\ last.op = "collides_polygon"
    /\ last.t.v = Frac(probe.length, 1)

\* the point at distance t / d from the ray's origin lies on the segment
\* from vertex A to vertex B
OnEdge(A, B, t) ==
    LET E == VSub(B, A)
        W == VSub(VAdd(VMul(probe.origin, t.d), VMul(probe.direction, t.n)),
                  VMul(A, t.d))
    IN  /\ E.x * W.y - E.y * W.x = 0
        /\ 0 <= Dot(W, E)
        /\ Dot(W, E) <= Length2(E) * t.d
        /\ E = Vec2(0, 0) => W = Vec2(0, 0)

\* ray.at(t) lies on the closed outline through the vertices now held by the
\* polygon object a
OnBoundary(a, t) ==
    LET vs == heap[a].vertices
    IN  \E i \in DOMAIN vs :
            OnEdge(vs[i], vs[IF i < Len(vs) THEN i + 1 ELSE 1], t)

\* C8 as stated: for a Polygon or Rectangle, after construction and any
\* number of rotate calls, the point at a distance returned by a ray query
\* against it lies on the boundary formed by its current vertices.
C8_HitOnCurrentBoundary ==
    (Hit /\ IsPolygon(heap[last.obj])) => OnBoundary(last.obj, last.t.v)

----------------------------------------------------------------------------
(* Claims about rotation *)

\* shape.rotate(angle) by the class of the object shape
Rotated(shape, angle) ==
    CASE shape.kind = "Rectangle" -> Rectangle_rotate(shape, angle)
      [] shape.kind \in {"Polygon", "RandomPolygon"} -> Polygon_rotate(shape, angle)
      [] OTHER -> HemiPlane_rotate(shape, angle)

\* C11: a rotate(angle) that is followed by rotate(-angle) gives back the
\* vertices the Rectangle, Polygon or random room had before (for a HemiPlane
\* or Segment: its direction and normal), and a rotate leaves the mean of a
\* polygon's vertices where it was, at the center the polygon holds.
C11_RotateBackRestores ==
    [][last'.op = "rotate" =>
          LET before == heap[1]
              after == heap'[1]
              back == Rotated(after, -last'.angle)
          IN  IF IsPolygon(before)
              THEN /\ back.vertices = before.vertices
                   /\ VMul(VSum(after.vertices), Len(before.vertices))
                        = VMul(VSum(before.vertices), Len(after.vertices))
                   /\ VMul(VSum(after.vertices), after.center.den)
                        = VMul(after.center.num, Len(after.vertices))
              ELSE /\ back.direction = before.direction
                   /\ back.normal = before.normal]_vars

\* the rectangle of width 4 and height 2 stands turned by a quarter, its
\* first vertex moved to (3, -1)
C11_Witness ==
    /\ last.op = "rotate"
    /\ heap[1].kind = "Rectangle"
    /\ heap[1].vertices[1] = Vec2(3, -1)
    /\ heap[1].vertices[3] = Vec2(1, 3)

----------------------------------------------------------------------------
(* The specification of sensing: a scene with at most one container and   *)
(* one constructor call, then either one ray queried against the polygon   *)
(* or one scan.  With visualize set, the later probes of the scan meet in  *)
(* the registry what its earlier probes drew.                              *)

SensingSensors ==
    {UltrasonicSensor(point_density, max_depth) :
        point_density \in 0..2, max_depth \in {2, MaxRayLength}}

SensingOrigins == {Vec2(-3, 1), Vec2(1, 1)}

SensingOffsets == {0, 1}

SensingNext ==
    \/ Fresh /\ NewShapeContainer
    \/ Fresh /\ ConstructPoint(ScenePoints)
    \/ Fresh /\ ConstructHemiPlane(SceneLines)
    \/ Fresh /\ ConstructSegment(SceneLines)
    \/ Fresh /\ ConstructRectangle(SceneRectangles)
    \/ Fresh /\ ConstructPolygon(ScenePolygons)
    \/ last.op # "scan" /\ RotateShape(SceneAngles)
    \/ last.op # "scan" /\ NewRay(SceneRays)
    \/ last.op \notin Queries /\ RayCollidesPolygon
    \/ probe = None /\ last.op # "scan"
          /\ Scan(SensingSensors, SensingOrigins, SensingOffsets)

Sensing == Init /\ [][SensingNext]_vars

----------------------------------------------------------------------------
(* Claims about the nearest hit *)

\* the distances in the set of query results ts that are hits
HitsOf(ts) == {t.v : t \in {u \in ts : u.some}}

\* d is the least element of the set ds of distances and bound
LeastOf(d, ds, bound) ==
    /\ d = bound \/ d \in ds
    /\ FracLe(d, bound)
    /\ \A e \in ds : FracLe(d, e)

\* C12: collides_polygon returns the least of the collides_segment results
\* over the polygon's edges, and no value exactly when no edge is hit; a scan
\* that returns holds one entry for each of its point_density + 1 probe
\* angles, the least of max_depth and the Ray.collide results over the shapes
\* of the registry, so that no entry exceeds max_depth or a registered
\* shape's hit distance on its ray.
C12_NearestHitWins ==
    /\ last.op = "collides_polygon" =>
            LET edges == heap[last.obj].edges
                ds == HitsOf({collides_segment(probe, heap[edges[i]]) : i \in DOMAIN edges})
            IN  /\ last.t.some <=> ds # {}
                /\ last.t.some => /\ last.t.v \in ds
                                   /\ \A e \in ds : FracLe(last.t.v, e)
    /\ (last.op = "scan" /\ last.status = "none") =>
            /\ Len(last.distances) = last.sensor.point_density + 1
            /\ \A k \in 0..last.sensor.point_density :
                    LET angle == ProbeAngle(k, last.sensor.point_density, last.offset_angle)
                        ray == Ray(angle, last.origin, last.sensor.max_depth)
                        ds == HitsOf({collide(ray, heap, heap[a]).t : a \in Values(Shapes)})
                    IN  /\ last.distances[k + 1].angle = angle
                        /\ LeastOf(last.distances[k + 1].d, ds,
                                   Frac(last.sensor.max_depth, 1))

\* a scan recorded the nearer of two hits at different distances that two
\* shapes of the registry give one of its rays
C12_Witness ==
    /\ last.op = "scan" /\ last.status = "none"
    /\ \E k \in 0..last.sensor.point_density :
            LET ray == Ray(ProbeAngle(k, last.sensor.point_density, last.offset_angle),
                           last.origin, last.sensor.max_depth)
            IN  \E a, b \in Values(Shapes) :
                    /\ collide(ray, heap, heap[a]).t.some
                    /\ collide(ray, heap, heap[b]).t.some
                    /\ FracLt(collide(ray, heap, heap[a]).t.v, collide(ray, heap, heap[b]).t.v)
                    /\ last.distances[k + 1].d = collide(ray, heap, heap[a]).t.v

----------------------------------------------------------------------------
(* Claims about re-instantiation *)

\* C13: ShapeContainer() called while an instance exists returns that
\* instance with no shape left in its registry, len() being 0, and leaves
\* the counter Shape.shape_id and every shape object as they were.
C13_ReinstantiationResets ==
    [][(last'.op = "ShapeContainer" /\ instance # 0) =>
          /\ last'.obj = instance
          /\ instance' = instance
          /\ Cardinality(DOMAIN containers'[instance]) = 0
          /\ \A a \in Values(containers[instance]) : a \notin Values(containers'[instance])
          /\ shape_id' = shape_id
          /\ heap' = heap]_vars

\* ShapeContainer() was called on an instance that held two shapes
C13_Witness ==
    /\ last.op = "ShapeContainer"
    /\ last.before # 0
    /\ last.len_before = 2
    /\ Shapes = EmptyDict

====
